---- MODULE Spec2Model ----
(***************************************************************************)
(* Model of the validating SearchServer of src/Project70/Source1.cpp.      *)
(*                                                                         *)
(* Representation                                                          *)
(*  - a char is its (signed) code, a string is a sequence of codes:        *)
(*    "a b" is <<97, 32, 98>>, "\x12" is 18, a high-bit byte is negative;  *)
(*  - std::map is a function whose DOMAIN is the set of keys, std::set a   *)
(*    set, std::vector a sequence; iteration over a map or a set follows   *)
(*    the key order (ascending ids, ascending lexicographic strings);      *)
(*  - a double is a fixed-point number in units of 1/Scale (1e-8), every   *)
(*    division and multiplication rounded to the nearest unit, so that     *)
(*    results of different computations of the same real number may        *)
(*    differ by a few units, far below EPSILON, as IEEE doubles do;        *)
(*    log() is tabulated to the same precision;                            *)
(*  - an exception leaves the handler at the throw: `ret.threw` names it;  *)
(*  - `writer` is the position of a thread inside AddDocument when other   *)
(*    threads run between its statements; a caller that runs one call at   *)
(*    a time leaves it idle.                                               *)
(***************************************************************************)
EXTENDS Integers, Sequences, FiniteSets, TLC

VARIABLES documents_, document_ids_, word_to_document_freqs_, m_stopWords,
          call, ret, writer

server == <<documents_, document_ids_, word_to_document_freqs_, m_stopWords>>
vars == <<documents_, document_ids_, word_to_document_freqs_, m_stopWords,
          call, ret, writer>>

MAX_RESULT_DOCUMENT_COUNT == 5

\* 1.0 in fixed-point units; Radix * Radix = Scale splits a product into
\* partial products that fit the checker's integers.
Radix == 100 * 100
Scale == Radix * Radix

EPSILON == Scale \div 1000000

DocumentStatus == {"ACTUAL", "IRRELEVANT", "BANNED", "REMOVED"}

EmptyMap == [k \in {} |-> 0]

\* map[key] = value, inserting the key when it is absent
Put(map, key, value) ==
    [k \in (DOMAIN map) \cup {key} |-> IF k = key THEN value ELSE map[k]]

---------------------------------------------------------------------------
(* Characters and words *)

\* <cctype> in the "C" locale, argument a non-negative char
IsCntrl(c) == c \in 0..31 \/ c = 127
IsAlpha(c) == c \in 65..90 \/ c \in 97..122
IsGraph(c) == c \in 33..126

isValidChar(character, isFirst) ==
    IF character < 0 THEN TRUE
    ELSE IF IsCntrl(character) THEN FALSE
    ELSE IF isFirst /\ IsAlpha(character) THEN TRUE
    ELSE IF ~isFirst /\ IsGraph(character) THEN TRUE
    ELSE FALSE

isValidWord(word) ==
    IF Len(word) = 0 THEN FALSE
    ELSE \A i \in 1..Len(word) : isValidChar(word[i], i = 1)

\* the default delimiters of split: " \r\n\t\v"
Delims == {32, 13, 10, 9, 11}

\* s.find_first_not_of(delims, pos) on 1-based positions; 0 is npos
RECURSIVE FindFirstNotOf(_, _)
FindFirstNotOf(s, pos) ==
    IF pos > Len(s) THEN 0
    ELSE IF s[pos] \notin Delims THEN pos
    ELSE FindFirstNotOf(s, pos + 1)

\* s.find_first_of(delims, pos), with npos already replaced by the
\* position past the end (endIdx = s.length())
RECURSIVE FindFirstOf(_, _)
FindFirstOf(s, pos) ==
    IF pos > Len(s) THEN Len(s) + 1
    ELSE IF s[pos] \in Delims THEN pos
    ELSE FindFirstOf(s, pos + 1)

RECURSIVE SplitFrom(_, _, _)
SplitFrom(out, s, begIdx) ==
    IF begIdx = 0 THEN out
    ELSE LET endIdx == FindFirstOf(s, begIdx)
         IN  SplitFrom(Append(out, SubSeq(s, begIdx, endIdx - 1)), s,
                       FindFirstNotOf(s, endIdx))

\* split into a vector<string>
split(s) == SplitFrom(<<>>, s, FindFirstNotOf(s, 1))

Range(seq) == {seq[i] : i \in 1..Len(seq)}

\* split into a set<string>
splitToSet(s) == Range(split(s))

\* std::string operator<: lexicographic, chars compared as unsigned char
UChar(c) == IF c < 0 THEN c + 256 ELSE c

RECURSIVE StrLessFrom(_, _, _)
StrLessFrom(u, v, i) ==
    IF i > Len(v) THEN FALSE
    ELSE IF i > Len(u) THEN TRUE
    ELSE IF UChar(u[i]) < UChar(v[i]) THEN TRUE
    ELSE IF UChar(u[i]) > UChar(v[i]) THEN FALSE
    ELSE StrLessFrom(u, v, i + 1)

StrLess(u, v) == StrLessFrom(u, v, 1)

\* the elements of a set<string> in iteration order
RECURSIVE StringsInOrder(_)
StringsInOrder(S) ==
    IF S = {} THEN <<>>
    ELSE LET first == CHOOSE u \in S : \A v \in S \ {u} : StrLess(u, v)
         IN  <<first>> \o StringsInOrder(S \ {first})

\* the keys of a map<int, ...> in iteration order
RECURSIVE IdsInOrder(_)
IdsInOrder(S) ==
    IF S = {} THEN <<>>
    ELSE LET first == CHOOSE i \in S : \A j \in S : i <= j
         IN  <<first>> \o IdsInOrder(S \ {first})

isStopWord(word) == word \in m_stopWords

\* [ok, words]: ok is the bool returned, words the out-parameter
RECURSIVE NoStopFrom(_, _, _)
NoStopFrom(tempWords, i, words) ==
    IF i > Len(tempWords) THEN [ok |-> TRUE, words |-> words]
    ELSE IF ~isValidWord(tempWords[i]) THEN [ok |-> FALSE, words |-> words]
    ELSE IF ~isStopWord(tempWords[i])
         THEN NoStopFrom(tempWords, i + 1, Append(words, tempWords[i]))
         ELSE NoStopFrom(tempWords, i + 1, words)

splitIntoWordsNoStop(text) == NoStopFrom(split(text), 1, <<>>)

---------------------------------------------------------------------------
(* Arithmetic *)

\* int / int of C++: truncation toward zero
IntDiv(a, b) == IF a >= 0 THEN a \div b ELSE -((-a) \div b)

RECURSIVE Accumulate(_, _)
Accumulate(ratings, init) ==
    IF ratings = <<>> THEN init
    ELSE Accumulate(Tail(ratings), init + Head(ratings))

\* computeAverageRating with a quotient rounded down
computeAverageRating_Floor(ratings) ==
    IF Len(ratings) = 0 THEN 0 ELSE Accumulate(ratings, 0) \div Len(ratings)

computeAverageRating(ratings) ==
    LET ratingsCount == Len(ratings)
    IN  IF ratingsCount = 0 THEN 0
        ELSE IntDiv(Accumulate(ratings, 0), Len(ratings))

\* 1.0 / n, rounded to the nearest unit (n = 0 gives inf, which
\* calculateTermFrequency never uses: there is no word to add it to)
InvCount(n) == IF n = 0 THEN 0 ELSE (2 * Scale + n) \div (2 * n)

\* x * y for non-negative fixed-point x, y, rounded to the nearest unit
MulFix(x, y) ==
    LET x1 == x \div Radix
        x0 == x % Radix
        y1 == y \div Radix
        y0 == y % Radix
        mid == x1 * y0 + x0 * y1
    IN  x1 * y1 + mid \div Radix
        + ((mid % Radix) * Radix + x0 * y0 + Scale \div 2) \div Scale

\* log(n / d) for 1 <= d <= n <= 8, rounded to the nearest unit
LogTable ==
    << <<0, 0, 0, 0, 0, 0, 0, 0>>,
       <<69314718, 0, 0, 0, 0, 0, 0, 0>>,
       <<109861229, 40546511, 0, 0, 0, 0, 0, 0>>,
       <<138629436, 69314718, 28768207, 0, 0, 0, 0, 0>>,
       <<160943791, 91629073, 51082562, 22314355, 0, 0, 0, 0>>,
       <<179175947, 109861229, 69314718, 40546511, 18232156, 0, 0, 0>>,
       <<194591015, 125276297, 84729786, 55961579, 33647224, 15415068, 0, 0>>,
       <<207944154, 138629436, 98082925, 69314718, 47000363, 28768207, 13353139, 0>> >>

Log(n, d) == LogTable[n][d]

---------------------------------------------------------------------------
(* Index *)

GetDocumentCount == Cardinality(DOMAIN documents_)

\* the loop of calculateTermFrequency over words[i..]
RECURSIVE TermFrequencyFrom(_, _, _, _, _)
TermFrequencyFrom(freqs, words, i, documentId, inv_word_count) ==
    IF i > Len(words) THEN freqs
    ELSE LET word == words[i]
             row  == IF word \in DOMAIN freqs THEN freqs[word] ELSE EmptyMap
             old  == IF documentId \in DOMAIN row THEN row[documentId] ELSE 0
         IN  TermFrequencyFrom(
                 Put(freqs, word, Put(row, documentId, old + inv_word_count)),
                 words, i + 1, documentId, inv_word_count)

\* calculateTermFrequency with = in place of +=
calculateTermFrequency_AssignOnce(freqs, documentId, words) ==
    LET inv_word_count == InvCount(Len(words))
        mine == Range(words)
    IN  [word \in (DOMAIN freqs) \cup mine |->
            IF word \in mine
            THEN Put(IF word \in DOMAIN freqs THEN freqs[word] ELSE EmptyMap,
                     documentId, inv_word_count)
            ELSE freqs[word]]

\* calculateTermFrequency dividing by the document's words plus the
\* terms already indexed
calculateTermFrequency_CountsIndex(freqs, documentId, words) ==
    TermFrequencyFrom(freqs, words, 1, documentId,
                      InvCount(Len(words) + Cardinality(DOMAIN freqs)))

\* word_to_document_freqs_ after calculateTermFrequency(documentId), where
\* words is documents_[documentId].words
calculateTermFrequency(freqs, documentId, words) ==
    TermFrequencyFrom(freqs, words, 1, documentId, InvCount(Len(words)))

\* what a call hands back: the exception it threw (or "none"), the vector
\* of FindTopDocuments after the sort and as returned, the tuple of
\* MatchDocument, the int of GetDocumentCount and GetDocumentId
NoResult ==
    [threw |-> "none", sorted |-> <<>>, docs |-> <<>>,
     matched_words |-> <<>>, status |-> "ACTUAL", value |-> 0]
Threw(what) == [NoResult EXCEPT !.threw = what]

NoPredicate == [kind |-> "none", status |-> "ACTUAL"]

\* no thread is inside AddDocument
Idle == [pc |-> "idle", documentId |-> 0, i |-> 0]

\* AddDocument without the documentId < 0 test
AddDocument_NoNegativeTest(documentId, document, status, ratings) ==
    LET split_ == splitIntoWordsNoStop(document)
    IN  /\ call' = [op |-> "AddDocument", documentId |-> documentId,
                    text |-> document, status |-> status, ratings |-> ratings,
                    predicate |-> NoPredicate]
        /\ IF documentId \in DOMAIN documents_ \/ ~split_.ok
           THEN /\ ret' = Threw("invalid_argument")
                /\ UNCHANGED server
           ELSE /\ documents_' = Put(documents_, documentId,
                        [rating |-> computeAverageRating(ratings),
                         status |-> status, words |-> split_.words])
                /\ document_ids_' = Append(document_ids_, documentId)
                /\ word_to_document_freqs_' =
                        calculateTermFrequency(word_to_document_freqs_,
                                               documentId, split_.words)
                /\ ret' = NoResult
                /\ UNCHANGED m_stopWords

\* AddDocument with document_ids_.push_back moved before the text is split
AddDocument_EarlyPush(documentId, document, status, ratings) ==
    LET split_ == splitIntoWordsNoStop(document)
    IN  /\ call' = [op |-> "AddDocument", documentId |-> documentId,
                    text |-> document, status |-> status, ratings |-> ratings,
                    predicate |-> NoPredicate]
        /\ IF documentId < 0 \/ documentId \in DOMAIN documents_
           THEN /\ ret' = Threw("invalid_argument")
                /\ UNCHANGED server
           ELSE IF ~split_.ok
           THEN /\ ret' = Threw("invalid_argument")
                /\ document_ids_' = Append(document_ids_, documentId)
                /\ UNCHANGED <<documents_, word_to_document_freqs_, m_stopWords>>
           ELSE /\ documents_' = Put(documents_, documentId,
                        [rating |-> computeAverageRating(ratings),
                         status |-> status, words |-> split_.words])
                /\ document_ids_' = Append(document_ids_, documentId)
                /\ word_to_document_freqs_' =
                        calculateTermFrequency(word_to_document_freqs_,
                                               documentId, split_.words)
                /\ ret' = NoResult
                /\ UNCHANGED m_stopWords

\* AddDocument without the test for an id that is already stored
AddDocument_NoDuplicateTest(documentId, document, status, ratings) ==
    LET split_ == splitIntoWordsNoStop(document)
    IN  /\ call' = [op |-> "AddDocument", documentId |-> documentId,
                    text |-> document, status |-> status, ratings |-> ratings,
                    predicate |-> NoPredicate]
        /\ IF documentId < 0 \/ ~split_.ok
           THEN /\ ret' = Threw("invalid_argument")
                /\ UNCHANGED server
           ELSE /\ documents_' =
                     IF documentId \in DOMAIN documents_ THEN documents_
                     ELSE Put(documents_, documentId,
                              [rating |-> computeAverageRating(ratings),
                               status |-> status, words |-> split_.words])
                /\ document_ids_' = Append(document_ids_, documentId)
                /\ word_to_document_freqs_' =
                        calculateTermFrequency(word_to_document_freqs_,
                                               documentId,
                                               documents_'[documentId].words)
                /\ ret' = NoResult
                /\ UNCHANGED m_stopWords

AddDocument(documentId, document, status, ratings) ==
    LET split_ == splitIntoWordsNoStop(document)
    IN  /\ call' = [op |-> "AddDocument", documentId |-> documentId,
                    text |-> document, status |-> status, ratings |-> ratings,
                    predicate |-> NoPredicate]
        /\ IF documentId < 0 \/ documentId \in DOMAIN documents_
           THEN /\ ret' = Threw("invalid_argument")
                /\ UNCHANGED server
           ELSE IF ~split_.ok
           THEN /\ ret' = Threw("invalid_argument")
                /\ UNCHANGED server
           ELSE /\ documents_' = Put(documents_, documentId,
                        [rating |-> computeAverageRating(ratings),
                         status |-> status, words |-> split_.words])
                /\ document_ids_' = Append(document_ids_, documentId)
                /\ word_to_document_freqs_' =
                        calculateTermFrequency(word_to_document_freqs_,
                                               documentId, split_.words)
                /\ ret' = NoResult
                /\ UNCHANGED m_stopWords

\* the loop of SetStopWords(const StringContainer&) over a set<string>:
\* [ok, stop]: ok is FALSE when the loop threw, stop the set reached
RECURSIVE StopWordsFrom(_, _, _)
StopWordsFrom(stopWords, i, stop) ==
    IF i > Len(stopWords) THEN [ok |-> TRUE, stop |-> stop]
    ELSE IF ~isValidWord(stopWords[i]) THEN [ok |-> FALSE, stop |-> stop]
    ELSE StopWordsFrom(stopWords, i + 1, stop \cup {stopWords[i]})

\* SetStopWords(const string&)
SetStopWords(stopWordsText) ==
    LET temp == splitToSet(stopWordsText)
        done == StopWordsFrom(StringsInOrder(temp), 1, m_stopWords)
    IN  /\ call' = [op |-> "SetStopWords", documentId |-> 0,
                    text |-> stopWordsText, status |-> "ACTUAL",
                    ratings |-> <<>>, predicate |-> NoPredicate]
        /\ m_stopWords' = done.stop
        /\ ret' = IF done.ok THEN NoResult ELSE Threw("invalid_argument")
        /\ UNCHANGED <<documents_, document_ids_, word_to_document_freqs_>>

---------------------------------------------------------------------------
(* Query parser *)

\* parseQueryWord that never marks a word as a stop word
parseQueryWord_NoStop(text) ==
    LET bad == [ok |-> FALSE, data |-> <<>>, is_minus |-> FALSE, is_stop |-> FALSE]
    IN  IF Len(text) = 0 THEN bad
        ELSE LET is_minus == text[1] = 45
                 word     == IF is_minus THEN SubSeq(text, 2, Len(text)) ELSE text
             IN  IF ~isValidWord(word) THEN bad
                 ELSE [ok |-> TRUE, data |-> word, is_minus |-> is_minus,
                       is_stop |-> FALSE]

\* [ok, data, is_minus, is_stop]: ok is the bool returned, the rest is qw
parseQueryWord(text) ==
    LET bad == [ok |-> FALSE, data |-> <<>>, is_minus |-> FALSE, is_stop |-> FALSE]
    IN  IF Len(text) = 0 THEN bad
        ELSE LET is_minus == text[1] = 45
                 word     == IF is_minus THEN SubSeq(text, 2, Len(text)) ELSE text
             IN  IF ~isValidWord(word) THEN bad
                 ELSE [ok |-> TRUE, data |-> word, is_minus |-> is_minus,
                       is_stop |-> isStopWord(word)]

\* the loop of parseQuery passing over a token that parseQueryWord refuses
RECURSIVE ParseQueryFrom_SkipInvalid(_, _, _, _)
ParseQueryFrom_SkipInvalid(words, i, plus_words, minus_words) ==
    IF i > Len(words)
    THEN [ok |-> TRUE, plus_words |-> plus_words, minus_words |-> minus_words]
    ELSE LET query_word == parseQueryWord(words[i])
         IN  IF ~query_word.ok \/ query_word.is_stop
             THEN ParseQueryFrom_SkipInvalid(words, i + 1, plus_words, minus_words)
             ELSE IF query_word.is_minus
             THEN ParseQueryFrom_SkipInvalid(words, i + 1, plus_words,
                                             minus_words \cup {query_word.data})
             ELSE ParseQueryFrom_SkipInvalid(words, i + 1,
                                             plus_words \cup {query_word.data},
                                             minus_words)

\* the loop of parseQuery keeping a word in one set only: a minus word
\* leaves the plus set and is not entered there again
RECURSIVE ParseQueryFrom_MinusWins(_, _, _, _)
ParseQueryFrom_MinusWins(words, i, plus_words, minus_words) ==
    IF i > Len(words)
    THEN [ok |-> TRUE, plus_words |-> plus_words, minus_words |-> minus_words]
    ELSE LET query_word == parseQueryWord(words[i])
         IN  IF ~query_word.ok
             THEN [ok |-> FALSE, plus_words |-> plus_words,
                   minus_words |-> minus_words]
             ELSE IF query_word.is_stop
             THEN ParseQueryFrom_MinusWins(words, i + 1, plus_words, minus_words)
             ELSE IF query_word.is_minus
             THEN ParseQueryFrom_MinusWins(words, i + 1,
                                           plus_words \ {query_word.data},
                                           minus_words \cup {query_word.data})
             ELSE ParseQueryFrom_MinusWins(words, i + 1,
                                           plus_words \cup ({query_word.data} \ minus_words),
                                           minus_words)

\* [ok, plus_words, minus_words]
RECURSIVE ParseQueryFrom(_, _, _, _)
ParseQueryFrom(words, i, plus_words, minus_words) ==
    IF i > Len(words)
    THEN [ok |-> TRUE, plus_words |-> plus_words, minus_words |-> minus_words]
    ELSE LET query_word == parseQueryWord(words[i])
         IN  IF ~query_word.ok
             THEN [ok |-> FALSE, plus_words |-> plus_words,
                   minus_words |-> minus_words]
             ELSE IF query_word.is_stop
             THEN ParseQueryFrom(words, i + 1, plus_words, minus_words)
             ELSE IF query_word.is_minus
             THEN ParseQueryFrom(words, i + 1, plus_words,
                                 minus_words \cup {query_word.data})
             ELSE ParseQueryFrom(words, i + 1,
                                 plus_words \cup {query_word.data}, minus_words)

parseQuery(text) == ParseQueryFrom(split(text), 1, {}, {})

---------------------------------------------------------------------------
(* Ranker *)

\* the predicates callers pass: the status filter of the status overload
\* and the "even ids" lambda of main
StatusIs(status) == [kind |-> "status", status |-> status]
EvenIds == [kind |-> "even_id", status |-> "ACTUAL"]

Apply(document_predicate, document_id, document_status, rating) ==
    IF document_predicate.kind = "status"
    THEN document_status = document_predicate.status
    ELSE document_id % 2 = 0

\* log of the integer quotient: the "* 1.0" left out
computeWordInverseDocumentFreq_IntegerQuotient(word) ==
    Log(GetDocumentCount \div Cardinality(DOMAIN word_to_document_freqs_[word]), 1)

computeWordInverseDocumentFreq(word) ==
    Log(GetDocumentCount, Cardinality(DOMAIN word_to_document_freqs_[word]))

\* the first loop of findAllDocuments entering a document only with a
\* non-zero contribution
RECURSIVE RelevanceFrom_NonZero(_, _, _, _)
RelevanceFrom_NonZero(document_to_relevance, plus_words, i, document_predicate) ==
    IF i > Len(plus_words) THEN document_to_relevance
    ELSE LET word == plus_words[i]
         IN  IF word \notin DOMAIN word_to_document_freqs_
             THEN RelevanceFrom_NonZero(document_to_relevance, plus_words, i + 1,
                                        document_predicate)
             ELSE LET inverse_document_freq == computeWordInverseDocumentFreq(word)
                      row == word_to_document_freqs_[word]
                      hit == {document_id \in DOMAIN row :
                                 /\ Apply(document_predicate, document_id,
                                          documents_[document_id].status,
                                          documents_[document_id].rating)
                                 /\ MulFix(row[document_id], inverse_document_freq) # 0}
                      next == [document_id \in (DOMAIN document_to_relevance) \cup hit |->
                                 (IF document_id \in DOMAIN document_to_relevance
                                  THEN document_to_relevance[document_id] ELSE 0)
                                 + (IF document_id \in hit
                                    THEN MulFix(row[document_id], inverse_document_freq)
                                    ELSE 0)]
                  IN  RelevanceFrom_NonZero(next, plus_words, i + 1, document_predicate)

\* the first loop of findAllDocuments without the call of the predicate
RECURSIVE RelevanceFrom_NoPredicate(_, _, _, _)
RelevanceFrom_NoPredicate(document_to_relevance, plus_words, i, document_predicate) ==
    IF i > Len(plus_words) THEN document_to_relevance
    ELSE LET word == plus_words[i]
         IN  IF word \notin DOMAIN word_to_document_freqs_
             THEN RelevanceFrom_NoPredicate(document_to_relevance, plus_words, i + 1,
                                            document_predicate)
             ELSE LET inverse_document_freq == computeWordInverseDocumentFreq(word)
                      row == word_to_document_freqs_[word]
                      hit == DOMAIN row
                      next == [document_id \in (DOMAIN document_to_relevance) \cup hit |->
                                 (IF document_id \in DOMAIN document_to_relevance
                                  THEN document_to_relevance[document_id] ELSE 0)
                                 + (IF document_id \in hit
                                    THEN MulFix(row[document_id], inverse_document_freq)
                                    ELSE 0)]
                  IN  RelevanceFrom_NoPredicate(next, plus_words, i + 1,
                                                document_predicate)

\* the first loop of findAllDocuments over plus_words[i..]; each document
\* id occurs once under a word, so the inner loop updates every entry once
RECURSIVE RelevanceFrom(_, _, _, _)
RelevanceFrom(document_to_relevance, plus_words, i, document_predicate) ==
    IF i > Len(plus_words) THEN document_to_relevance
    ELSE LET word == plus_words[i]
         IN  IF word \notin DOMAIN word_to_document_freqs_
             THEN RelevanceFrom(document_to_relevance, plus_words, i + 1,
                                document_predicate)
             ELSE LET inverse_document_freq == computeWordInverseDocumentFreq(word)
                      row == word_to_document_freqs_[word]
                      hit == {document_id \in DOMAIN row :
                                 Apply(document_predicate, document_id,
                                       documents_[document_id].status,
                                       documents_[document_id].rating)}
                      next == [document_id \in (DOMAIN document_to_relevance) \cup hit |->
                                 (IF document_id \in DOMAIN document_to_relevance
                                  THEN document_to_relevance[document_id] ELSE 0)
                                 + (IF document_id \in hit
                                    THEN MulFix(row[document_id], inverse_document_freq)
                                    ELSE 0)]
                  IN  RelevanceFrom(next, plus_words, i + 1, document_predicate)

\* the ids the second loop of findAllDocuments erases
MinusIds(minus_words) ==
    UNION {DOMAIN word_to_document_freqs_[word] :
              word \in minus_words \cap DOMAIN word_to_document_freqs_}

\* findAllDocuments with the two loops in the other order: the minus
\* words erase from a map that is still empty
findAllDocuments_MinusFirst(query, document_predicate) ==
    LET scored == RelevanceFrom(EmptyMap, StringsInOrder(query.plus_words), 1,
                                document_predicate)
        ids    == IdsInOrder(DOMAIN scored)
    IN  [k \in 1..Len(ids) |->
            [id |-> ids[k], relevance |-> scored[ids[k]],
             rating |-> documents_[ids[k]].rating]]

\* findAllDocuments starting from every document that passes the
\* predicate, with relevance 0
findAllDocuments_EveryDocument(query, document_predicate) ==
    LET passing == {id \in DOMAIN documents_ :
                      Apply(document_predicate, id, documents_[id].status,
                            documents_[id].rating)}
        scored == RelevanceFrom([id \in passing |-> 0],
                                StringsInOrder(query.plus_words), 1,
                                document_predicate)
        kept   == (DOMAIN scored) \ MinusIds(query.minus_words)
        ids    == IdsInOrder(kept)
    IN  [k \in 1..Len(ids) |->
            [id |-> ids[k], relevance |-> scored[ids[k]],
             rating |-> documents_[ids[k]].rating]]

findAllDocuments(query, document_predicate) ==
    LET scored == RelevanceFrom(EmptyMap, StringsInOrder(query.plus_words), 1,
                                document_predicate)
        kept   == (DOMAIN scored) \ MinusIds(query.minus_words)
        ids    == IdsInOrder(kept)
    IN  [k \in 1..Len(ids) |->
            [id |-> ids[k], relevance |-> scored[ids[k]],
             rating |-> documents_[ids[k]].rating]]

Abs(x) == IF x < 0 THEN -x ELSE x

\* the comparator handed to sort
Before(lhs, rhs) ==
    \/ lhs.relevance > rhs.relevance
    \/ /\ Abs(lhs.relevance - rhs.relevance) < EPSILON
       /\ lhs.rating > rhs.rating

\* std::sort requires a strict weak ordering of the elements it sorts
Equivalent(a, b) == ~Before(a, b) /\ ~Before(b, a)

StrictWeakOrder(S) ==
    /\ \A a, b \in S : Before(a, b) => ~Before(b, a)
    /\ \A a, b, c \in S : Before(a, b) /\ Before(b, c) => Before(a, c)
    /\ \A a, b, c \in S : Equivalent(a, b) /\ Equivalent(b, c) => Equivalent(a, c)

\* the orders of S that put no element after one it must precede
\* (ordered = TRUE), or all orders of S (ordered = FALSE)
RECURSIVE Orderings(_, _)
Orderings(S, ordered) ==
    IF S = {} THEN {<<>>}
    ELSE UNION {{<<first>> \o rest : rest \in Orderings(S \ {first}, ordered)} :
                first \in {a \in S : ordered => \A b \in S : ~Before(b, a)}}

\* what sort may leave in matched_documents: with a strict weak ordering
\* any sorted order (sort is not stable); otherwise the behaviour is
\* undefined and the elements may be left in any order
SortOutcomes(matched_documents) ==
    Orderings(Range(matched_documents), StrictWeakOrder(Range(matched_documents)))

\* FindTopDocuments without the resize
FindTop_NoResize(rawQuery, document_predicate, overload, status) ==
    LET query == parseQuery(rawQuery)
    IN  /\ call' = [op |-> overload, documentId |-> 0, text |-> rawQuery,
                    status |-> status, ratings |-> <<>>,
                    predicate |-> document_predicate]
        /\ IF ~query.ok
           THEN ret' = Threw("invalid_argument")
           ELSE \E sorted \in SortOutcomes(findAllDocuments(query, document_predicate)) :
                  ret' = [NoResult EXCEPT !.sorted = sorted, !.docs = sorted]
        /\ UNCHANGED server

\* FindTopDocuments(rawQuery, document_predicate), reached through the
\* overload named; status is the argument of the status overload
FindTop(rawQuery, document_predicate, overload, status) ==
    LET query == parseQuery(rawQuery)
    IN  /\ call' = [op |-> overload, documentId |-> 0, text |-> rawQuery,
                    status |-> status, ratings |-> <<>>,
                    predicate |-> document_predicate]
        /\ IF ~query.ok
           THEN ret' = Threw("invalid_argument")
           ELSE \E sorted \in SortOutcomes(findAllDocuments(query, document_predicate)) :
                  ret' = [NoResult EXCEPT
                            !.sorted = sorted,
                            !.docs = IF Len(sorted) > MAX_RESULT_DOCUMENT_COUNT
                                     THEN SubSeq(sorted, 1, MAX_RESULT_DOCUMENT_COUNT)
                                     ELSE sorted]
        /\ UNCHANGED server

\* the three overloads
FindTopDocuments(rawQuery, document_predicate) ==
    FindTop(rawQuery, document_predicate, "FindTopDocuments(predicate)", "ACTUAL")

FindTopDocumentsStatus(rawQuery, status) ==
    FindTop(rawQuery, StatusIs(status), "FindTopDocuments(status)", status)

FindTopDocumentsDefault(rawQuery) ==
    FindTop(rawQuery, StatusIs("ACTUAL"), "FindTopDocuments()", "ACTUAL")

---------------------------------------------------------------------------
(* Matching and enumeration *)

\* word_to_document_freqs_.count(word) != 0 and
\* word_to_document_freqs_.at(word).count(documentId) != 0
InIndex(word, documentId) ==
    /\ word \in DOMAIN word_to_document_freqs_
    /\ documentId \in DOMAIN word_to_document_freqs_[word]

\* matched_words after the plus_words loop of MatchDocument
RECURSIVE MatchedFrom(_, _, _, _)
MatchedFrom(matched_words, plus_words, i, documentId) ==
    IF i > Len(plus_words) THEN matched_words
    ELSE IF InIndex(plus_words[i], documentId)
    THEN MatchedFrom(Append(matched_words, plus_words[i]), plus_words, i + 1,
                     documentId)
    ELSE MatchedFrom(matched_words, plus_words, i + 1, documentId)

\* MatchDocument without the minus_words loop
MatchDocument_NoMinusLoop(rawQuery, documentId) ==
    LET query == parseQuery(rawQuery)
        matched_words ==
            MatchedFrom(<<>>, StringsInOrder(query.plus_words), 1, documentId)
    IN  /\ call' = [op |-> "MatchDocument", documentId |-> documentId,
                    text |-> rawQuery, status |-> "ACTUAL", ratings |-> <<>>,
                    predicate |-> NoPredicate]
        /\ ret' = IF ~query.ok THEN Threw("invalid_argument")
                  ELSE IF documentId \notin DOMAIN documents_
                  THEN Threw("out_of_range")
                  ELSE [NoResult EXCEPT !.matched_words = matched_words,
                                        !.status = documents_[documentId].status]
        /\ UNCHANGED server

\* MatchDocument collecting every valid plus token, stop words included
MatchDocument_StopWordsKept(rawQuery, documentId) ==
    LET query == parseQuery(rawQuery)
        plus == {word \in Range(split(rawQuery)) : word[1] # 45}
        after_plus == MatchedFrom(<<>>, StringsInOrder(plus), 1, documentId)
        matched_words ==
            IF \E word \in query.minus_words : InIndex(word, documentId)
            THEN <<>> ELSE after_plus
    IN  /\ call' = [op |-> "MatchDocument", documentId |-> documentId,
                    text |-> rawQuery, status |-> "ACTUAL", ratings |-> <<>>,
                    predicate |-> NoPredicate]
        /\ ret' = IF ~query.ok THEN Threw("invalid_argument")
                  ELSE IF documentId \notin DOMAIN documents_
                  THEN Threw("out_of_range")
                  ELSE [NoResult EXCEPT !.matched_words = matched_words,
                                        !.status = documents_[documentId].status]
        /\ UNCHANGED server

\* MatchDocument looking words up with operator[], which inserts an empty
\* row for a plus word the index does not hold
MatchDocument_IndexInserts(rawQuery, documentId) ==
    LET query == parseQuery(rawQuery)
        after_plus ==
            MatchedFrom(<<>>, StringsInOrder(query.plus_words), 1, documentId)
        matched_words ==
            IF \E word \in query.minus_words : InIndex(word, documentId)
            THEN <<>> ELSE after_plus
    IN  /\ call' = [op |-> "MatchDocument", documentId |-> documentId,
                    text |-> rawQuery, status |-> "ACTUAL", ratings |-> <<>>,
                    predicate |-> NoPredicate]
        /\ ret' = IF ~query.ok THEN Threw("invalid_argument")
                  ELSE IF documentId \notin DOMAIN documents_
                  THEN Threw("out_of_range")
                  ELSE [NoResult EXCEPT !.matched_words = matched_words,
                                        !.status = documents_[documentId].status]
        /\ word_to_document_freqs_' =
              [word \in (DOMAIN word_to_document_freqs_)
                        \cup (IF query.ok THEN query.plus_words ELSE {}) |->
                 IF word \in DOMAIN word_to_document_freqs_
                 THEN word_to_document_freqs_[word] ELSE EmptyMap]
        /\ UNCHANGED <<documents_, document_ids_, m_stopWords>>

\* MatchDocument: the query is parsed first; documents_.at(documentId), in
\* the return statement, throws out_of_range for an id that is not a key
MatchDocument(rawQuery, documentId) ==
    LET query == parseQuery(rawQuery)
        after_plus ==
            MatchedFrom(<<>>, StringsInOrder(query.plus_words), 1, documentId)
        matched_words ==
            IF \E word \in query.minus_words : InIndex(word, documentId)
            THEN <<>> ELSE after_plus
    IN  /\ call' = [op |-> "MatchDocument", documentId |-> documentId,
                    text |-> rawQuery, status |-> "ACTUAL", ratings |-> <<>>,
                    predicate |-> NoPredicate]
        /\ ret' = IF ~query.ok THEN Threw("invalid_argument")
                  ELSE IF documentId \notin DOMAIN documents_
                  THEN Threw("out_of_range")
                  ELSE [NoResult EXCEPT !.matched_words = matched_words,
                                        !.status = documents_[documentId].status]
        /\ UNCHANGED server

\* a call of GetDocumentCount()
CallGetDocumentCount ==
    /\ call' = [op |-> "GetDocumentCount", documentId |-> 0, text |-> <<>>,
                status |-> "ACTUAL", ratings |-> <<>>, predicate |-> NoPredicate]
    /\ ret' = [NoResult EXCEPT !.value = GetDocumentCount]
    /\ UNCHANGED server

\* GetDocumentId with the test index > 0 in place of index >= 0
GetDocumentId_PositiveOnly(index) ==
    /\ call' = [op |-> "GetDocumentId", documentId |-> index, text |-> <<>>,
                status |-> "ACTUAL", ratings |-> <<>>, predicate |-> NoPredicate]
    /\ ret' = IF index > 0 /\ index < GetDocumentCount
              THEN [NoResult EXCEPT !.value = document_ids_[index + 1]]
              ELSE Threw("out_of_range")
    /\ UNCHANGED server

\* GetDocumentId reading the keys of documents_ in their order
GetDocumentId_KeyOrder(index) ==
    /\ call' = [op |-> "GetDocumentId", documentId |-> index, text |-> <<>>,
                status |-> "ACTUAL", ratings |-> <<>>, predicate |-> NoPredicate]
    /\ ret' = IF index >= 0 /\ index < GetDocumentCount
              THEN [NoResult EXCEPT
                       !.value = IdsInOrder(DOMAIN documents_)[index + 1]]
              ELSE Threw("out_of_range")
    /\ UNCHANGED server

\* what a read of document_ids_[index] past the end of the vector may
\* yield: the behaviour is undefined, any int may come back
UndefinedInts == {-1, 0, 1}

\* GetDocumentId(index); call.documentId holds the index passed. The
\* bounds test is against documents_.size(), the read is from
\* document_ids_.
GetDocumentId(index) ==
    /\ call' = [op |-> "GetDocumentId", documentId |-> index, text |-> <<>>,
                status |-> "ACTUAL", ratings |-> <<>>, predicate |-> NoPredicate]
    /\ IF index >= 0 /\ index < GetDocumentCount
       THEN IF index < Len(document_ids_)
            THEN ret' = [NoResult EXCEPT !.value = document_ids_[index + 1]]
            ELSE \E value \in UndefinedInts :
                    ret' = [NoResult EXCEPT !.value = value]
       ELSE ret' = Threw("out_of_range")
    /\ UNCHANGED server

---------------------------------------------------------------------------
(* The non-throwing server of src/unnamed/part_000. It has the members of
   the validating server except the id list (document_ids_ stays empty),
   stop_words_ is held in m_stopWords, and its findAllDocuments, sort
   comparator, computeAverageRating and calculateTermFrequency are those
   modelled above. Its calls are named "variant. ..." in call.op; the bool
   AddDocument returns is ret.value (1 for true, 0 for false). *)

\* the loop of SplitIntoWords: word is the word being read
RECURSIVE SplitIntoWordsFrom(_, _, _, _)
SplitIntoWordsFrom(text, i, word, words) ==
    IF i > Len(text) THEN Append(words, word)
    ELSE IF text[i] = 32
    THEN SplitIntoWordsFrom(text, i + 1, <<>>, Append(words, word))
    ELSE SplitIntoWordsFrom(text, i + 1, Append(word, text[i]), words)

SplitIntoWords(text) == SplitIntoWordsFrom(text, 1, <<>>, <<>>)

V_splitIntoWordsNoStop(text) ==
    SelectSeq(SplitIntoWords(text), LAMBDA word : ~isStopWord(word))

VariantCall(op, documentId, text, status, ratings, predicate) ==
    [op |-> op, documentId |-> documentId, text |-> text, status |-> status,
     ratings |-> ratings, predicate |-> predicate]

V_SetStopWords(text) ==
    /\ call' = VariantCall("variant.SetStopWords", 0, text, "ACTUAL", <<>>,
                           NoPredicate)
    /\ m_stopWords' = m_stopWords \cup Range(SplitIntoWords(text))
    /\ ret' = NoResult
    /\ UNCHANGED <<documents_, document_ids_, word_to_document_freqs_>>

\* [inserted, documents]: the bool returned and documents_ afterwards
addDocumentData(document_id, words, status, ratings) ==
    IF document_id \notin DOMAIN documents_
    THEN [inserted |-> TRUE,
          documents |-> Put(documents_, document_id,
                            [rating |-> computeAverageRating(ratings),
                             status |-> status, words |-> words])]
    ELSE [inserted |-> FALSE,
          documents |-> [documents_ EXCEPT
                            ![document_id].words = documents_[document_id].words \o words]]

\* word_to_document_freqs_ after deleteAllDocumentWords(documentId)
deleteAllDocumentWords(freqs, documentId) ==
    LET erased == [word \in DOMAIN freqs |->
                      [id \in (DOMAIN freqs[word]) \ {documentId} |-> freqs[word][id]]]
        emptyWords == {word \in DOMAIN erased : DOMAIN erased[word] = {}}
    IN  [word \in (DOMAIN erased) \ emptyWords |-> erased[word]]

V_AddDocument(document_id, document, status, ratings) ==
    LET data == addDocumentData(document_id, V_splitIntoWordsNoStop(document),
                                status, ratings)
        freqs == IF data.inserted THEN word_to_document_freqs_
                 ELSE deleteAllDocumentWords(word_to_document_freqs_, document_id)
    IN  /\ call' = VariantCall("variant.AddDocument", document_id, document,
                               status, ratings, NoPredicate)
        /\ IF document = <<>>
           THEN /\ ret' = [NoResult EXCEPT !.value = 0]
                /\ UNCHANGED server
           ELSE /\ documents_' = data.documents
                /\ word_to_document_freqs_' =
                      calculateTermFrequency(freqs, document_id,
                                             data.documents[document_id].words)
                /\ ret' = [NoResult EXCEPT !.value = 1]
                /\ UNCHANGED <<document_ids_, m_stopWords>>

\* text[0] of an empty string is '\0'
V_parseQueryWord(text) ==
    LET is_minus == text # <<>> /\ text[1] = 45
        word     == IF is_minus THEN SubSeq(text, 2, Len(text)) ELSE text
    IN  [data |-> word, is_minus |-> is_minus, is_stop |-> isStopWord(word)]

V_parseQuery(text) ==
    LET query_words == {V_parseQueryWord(word) : word \in Range(SplitIntoWords(text))}
    IN  [ok |-> TRUE,
         plus_words  |-> {qw.data : qw \in {q \in query_words : ~q.is_stop /\ ~q.is_minus}},
         minus_words |-> {qw.data : qw \in {q \in query_words : ~q.is_stop /\ q.is_minus}}]

\* FindTopDocuments(raw_query), through the status overload
V_FindTopDocuments(raw_query) ==
    /\ call' = VariantCall("variant.FindTopDocuments", 0, raw_query, "ACTUAL",
                           <<>>, StatusIs("ACTUAL"))
    /\ \E sorted \in SortOutcomes(findAllDocuments(V_parseQuery(raw_query),
                                                    StatusIs("ACTUAL"))) :
          ret' = [NoResult EXCEPT
                    !.sorted = sorted,
                    !.docs = IF Len(sorted) > MAX_RESULT_DOCUMENT_COUNT
                             THEN SubSeq(sorted, 1, MAX_RESULT_DOCUMENT_COUNT)
                             ELSE sorted]
    /\ UNCHANGED server

V_MatchDocument(raw_query, document_id) ==
    LET query == V_parseQuery(raw_query)
        after_plus ==
            MatchedFrom(<<>>, StringsInOrder(query.plus_words), 1, document_id)
        matched_words ==
            IF \E word \in query.minus_words : InIndex(word, document_id)
            THEN <<>> ELSE after_plus
    IN  /\ call' = VariantCall("variant.MatchDocument", document_id, raw_query,
                               "ACTUAL", <<>>, NoPredicate)
        /\ ret' = IF document_id \notin DOMAIN documents_
                  THEN Threw("out_of_range")
                  ELSE [NoResult EXCEPT !.matched_words = matched_words,
                                        !.status = documents_[document_id].status]
        /\ UNCHANGED server

---------------------------------------------------------------------------
(* AddDocument statement by statement, for callers that run other calls
   between the statements of one AddDocument. Each step is one statement
   of AddDocument or one iteration of the loop of calculateTermFrequency;
   reads that run between two steps see the members as the steps left
   them. *)

\* the tests, the split and documents_.emplace, with document_ids_.push_back
\* done in the same step
WriterBegin_PushToo(documentId, document, status, ratings) ==
    LET split_ == splitIntoWordsNoStop(document)
    IN  /\ writer.pc = "idle"
        /\ call' = [op |-> "AddDocument", documentId |-> documentId,
                    text |-> document, status |-> status, ratings |-> ratings,
                    predicate |-> NoPredicate]
        /\ IF documentId < 0 \/ documentId \in DOMAIN documents_ \/ ~split_.ok
           THEN /\ ret' = Threw("invalid_argument")
                /\ UNCHANGED <<server, writer>>
           ELSE /\ documents_' = Put(documents_, documentId,
                        [rating |-> computeAverageRating(ratings),
                         status |-> status, words |-> split_.words])
                /\ document_ids_' = Append(document_ids_, documentId)
                /\ writer' = [pc |-> "emplaced", documentId |-> documentId, i |-> 0]
                /\ ret' = NoResult
                /\ UNCHANGED <<word_to_document_freqs_, m_stopWords>>

\* AddDocument up to and including documents_.emplace
WriterBegin(documentId, document, status, ratings) ==
    LET split_ == splitIntoWordsNoStop(document)
    IN  /\ writer.pc = "idle"
        /\ call' = [op |-> "AddDocument", documentId |-> documentId,
                    text |-> document, status |-> status, ratings |-> ratings,
                    predicate |-> NoPredicate]
        /\ IF documentId < 0 \/ documentId \in DOMAIN documents_ \/ ~split_.ok
           THEN /\ ret' = Threw("invalid_argument")
                /\ UNCHANGED <<server, writer>>
           ELSE /\ documents_' = Put(documents_, documentId,
                        [rating |-> computeAverageRating(ratings),
                         status |-> status, words |-> split_.words])
                /\ writer' = [pc |-> "emplaced", documentId |-> documentId, i |-> 0]
                /\ ret' = NoResult
                /\ UNCHANGED <<document_ids_, word_to_document_freqs_, m_stopWords>>

\* document_ids_.push_back(documentId)
WriterPush ==
    /\ writer.pc = "emplaced"
    /\ document_ids_' = Append(document_ids_, writer.documentId)
    /\ writer' = [writer EXCEPT !.pc = "folding", !.i = 1]
    /\ UNCHANGED <<documents_, word_to_document_freqs_, m_stopWords, call, ret>>

\* one iteration of the loop of calculateTermFrequency, or its end and
\* the return of AddDocument
WriterFold ==
    LET words == documents_[writer.documentId].words
    IN  /\ writer.pc = "folding"
        /\ IF writer.i > Len(words)
           THEN /\ writer' = Idle
                /\ UNCHANGED word_to_document_freqs_
           ELSE /\ word_to_document_freqs_' =
                      TermFrequencyFrom(word_to_document_freqs_,
                                        <<words[writer.i]>>, 1, writer.documentId,
                                        InvCount(Len(words)))
                /\ writer' = [writer EXCEPT !.i = writer.i + 1]
        /\ UNCHANGED <<documents_, document_ids_, m_stopWords, call, ret>>

---------------------------------------------------------------------------
(* Callers *)

Construct ==
    /\ documents_ = EmptyMap
    /\ document_ids_ = <<>>
    /\ word_to_document_freqs_ = EmptyMap
    /\ m_stopWords = {}
    /\ call = [op |-> "SearchServer", documentId |-> 0, text |-> <<>>,
               status |-> "ACTUAL", ratings |-> <<>>, predicate |-> NoPredicate]
    /\ ret = NoResult
    /\ writer = Idle

(* Spec: a caller that passes any id in -1..MaxId with any of Bodies, sets
   stop words at any time and queries in all three overloads. *)

MaxId == 1

Ids == -1..MaxId

\* "a b", "a\t i", "" and "b \x12" with a status and ratings
Bodies ==
    { [text |-> <<97, 32, 98>>,  status |-> "ACTUAL",     ratings |-> <<8, -3>>],
      [text |-> <<97, 9, 32, 105>>, status |-> "BANNED",  ratings |-> <<7, 2, 7>>],
      [text |-> <<>>,            status |-> "IRRELEVANT", ratings |-> <<1>>],
      [text |-> <<98, 32, 18>>,  status |-> "REMOVED",    ratings |-> <<1>>] }

\* "i" and "i {"
StopTexts == { <<105>>, <<105, 32, 123>> }

\* "a", "a -b", "a -a", "i b", "a --b"
Queries ==
    { <<97>>, <<97, 32, 45, 98>>, <<97, 32, 45, 97>>, <<105, 32, 98>>,
      <<97, 32, 45, 45, 98>> }

QueryStatuses == {"BANNED"}

\* the ordinals passed to GetDocumentId: below, within and beyond the
\* range of any id list the caller can build
Ordinals == -1..(MaxId + 1)

Init == Construct

Next ==
    /\ UNCHANGED writer
    /\ \/ \E documentId \in Ids, body \in Bodies :
             AddDocument(documentId, body.text, body.status, body.ratings)
       \/ \E stopWordsText \in StopTexts : SetStopWords(stopWordsText)
       \/ \E rawQuery \in Queries : FindTopDocumentsDefault(rawQuery)
       \/ \E rawQuery \in Queries, status \in QueryStatuses :
             FindTopDocumentsStatus(rawQuery, status)
       \/ \E rawQuery \in Queries : FindTopDocuments(rawQuery, EvenIds)
       \/ \E rawQuery \in Queries, documentId \in 0..MaxId :
             MatchDocument(rawQuery, documentId)
       \/ CallGetDocumentCount
       \/ \E index \in Ordinals : GetDocumentId(index)

Spec == Init /\ [][Next]_vars

(* SpecRank: a caller that numbers its documents 0, 1, ... and stores up to
   MaxRankDocs of RankBodies, whose relevances tie, nearly tie or differ. *)

MaxRankDocs == 3

\* "a", "b", "c d e f g" and "h h h h h h h": the relevance of each is
\* ln N for a query of its words when no word is shared, up to rounding
RankBodies ==
    { [text |-> <<97>>, status |-> "ACTUAL", ratings |-> <<1>>],
      [text |-> <<98>>, status |-> "ACTUAL", ratings |-> <<2>>],
      [text |-> <<99, 32, 100, 32, 101, 32, 102, 32, 103>>,
       status |-> "ACTUAL", ratings |-> <<>>],
      [text |-> <<104, 32, 104, 32, 104, 32, 104, 32, 104, 32, 104, 32, 104>>,
       status |-> "ACTUAL", ratings |-> <<7, 2, 7>>] }

\* "a b c d e f g h" and "a h -b"
RankQueries ==
    { <<97, 32, 98, 32, 99, 32, 100, 32, 101, 32, 102, 32, 103, 32, 104>>,
      <<97, 32, 104, 32, 45, 98>> }

NextRank ==
    /\ UNCHANGED writer
    /\ \/ \E body \in RankBodies :
             /\ GetDocumentCount < MaxRankDocs
             /\ AddDocument(GetDocumentCount, body.text, body.status, body.ratings)
       \/ \E rawQuery \in RankQueries : FindTopDocumentsDefault(rawQuery)
       \/ \E rawQuery \in RankQueries : FindTopDocuments(rawQuery, EvenIds)

SpecRank == Init /\ [][NextRank]_vars

(* SpecCap: a caller that numbers its documents 0, 1, ... , rates document
   k with <<k>> and stores up to MaxCapDocs of them, more than
   MAX_RESULT_DOCUMENT_COUNT. *)

MaxCapDocs == 6

\* "a", "a b" and "b"
CapBodies ==
    { [text |-> <<97>>,         status |-> "ACTUAL"],
      [text |-> <<97, 32, 98>>, status |-> "ACTUAL"],
      [text |-> <<98>>,         status |-> "BANNED"] }

\* "a", "a b", "b -a"
CapQueries == { <<97>>, <<97, 32, 98>>, <<98, 32, 45, 97>> }

NextCap ==
    /\ UNCHANGED writer
    /\ \/ \E body \in CapBodies :
             /\ GetDocumentCount < MaxCapDocs
             /\ AddDocument(GetDocumentCount, body.text, body.status,
                            <<GetDocumentCount>>)
       \/ \E rawQuery \in CapQueries : FindTopDocumentsDefault(rawQuery)
       \/ \E rawQuery \in CapQueries, status \in QueryStatuses :
             FindTopDocumentsStatus(rawQuery, status)
       \/ \E rawQuery \in CapQueries : FindTopDocuments(rawQuery, EvenIds)

SpecCap == Init /\ [][NextCap]_vars

(* SpecQuery: a caller that numbers its documents 0, 1, ... , stores up to
   MaxQueryDocs of QueryBodies, makes "i" a stop word before or after
   them, and searches and matches with well-formed and malformed queries. *)

MaxQueryDocs == 2

\* "a i", "i", "a" and "b"
QueryBodies ==
    { [text |-> <<97, 32, 105>>, status |-> "ACTUAL",  ratings |-> <<8, -3>>],
      [text |-> <<105>>,         status |-> "ACTUAL",  ratings |-> <<-8, 3>>],
      [text |-> <<97>>,          status |-> "BANNED",  ratings |-> <<7, 2, 7>>],
      [text |-> <<98>>,          status |-> "ACTUAL",  ratings |-> <<>>] }

\* "i"
QueryStopTexts == { <<105>> }

\* "", "a", "i a", "i", "-i", "i -i", "a -", "--a i", "a b\x12", "1a", "a -1"
MatchQueries ==
    { <<>>, <<97>>, <<105, 32, 97>>, <<105>>, <<45, 105>>, <<105, 32, 45, 105>>,
      <<97, 32, 45>>, <<45, 45, 97, 32, 105>>, <<97, 32, 98, 18>>,
      <<49, 97>>, <<97, 32, 45, 49>> }

NextQuery ==
    /\ UNCHANGED writer
    /\ \/ \E body \in QueryBodies :
             /\ GetDocumentCount < MaxQueryDocs
             /\ AddDocument(GetDocumentCount, body.text, body.status, body.ratings)
       \/ \E stopWordsText \in QueryStopTexts : SetStopWords(stopWordsText)
       \/ \E rawQuery \in MatchQueries : FindTopDocumentsDefault(rawQuery)
       \/ \E rawQuery \in MatchQueries, documentId \in 0..MaxQueryDocs :
             MatchDocument(rawQuery, documentId)

SpecQuery == Init /\ [][NextQuery]_vars

(* SpecVariant: a caller of the non-throwing server that passes any id of
   VariantIds with any of VariantBodies, also an id that is stored (until
   the document holds MaxVariantWords words), sets stop words at any
   time, searches and matches. *)

MaxVariantWords == 4

VariantIds == {0, 1}

ConstructVariant ==
    /\ documents_ = EmptyMap
    /\ document_ids_ = <<>>
    /\ word_to_document_freqs_ = EmptyMap
    /\ m_stopWords = {}
    /\ call = VariantCall("variant.SearchServer", 0, <<>>, "ACTUAL", <<>>, NoPredicate)
    /\ ret = NoResult
    /\ writer = Idle

\* "a i", "b", "" and "a  b"
VariantBodies ==
    { [text |-> <<97, 32, 105>>,     status |-> "ACTUAL", ratings |-> <<8, -3>>],
      [text |-> <<98>>,              status |-> "BANNED", ratings |-> <<1>>],
      [text |-> <<>>,                status |-> "ACTUAL", ratings |-> <<1>>],
      [text |-> <<97, 32, 32, 98>>,  status |-> "ACTUAL", ratings |-> <<>>] }

\* "a -b" and "i"
VariantQueries == { <<97, 32, 45, 98>>, <<105>> }

NextVariant ==
    /\ UNCHANGED writer
    /\ \/ \E document_id \in VariantIds, body \in VariantBodies :
             /\ document_id \in DOMAIN documents_
                => Len(documents_[document_id].words)
                     + Len(V_splitIntoWordsNoStop(body.text)) <= MaxVariantWords
             /\ V_AddDocument(document_id, body.text, body.status, body.ratings)
       \/ V_SetStopWords(<<105>>)
       \/ \E raw_query \in VariantQueries : V_FindTopDocuments(raw_query)
       \/ \E raw_query \in VariantQueries, document_id \in VariantIds \cup {2} :
             V_MatchDocument(raw_query, document_id)

SpecVariant == ConstructVariant /\ [][NextVariant]_vars

(* SpecBoth: either server, chosen at construction. The validating server
   is called with any id in 0..MaxBothId and any of BothBodies, one of
   which repeats a term eighteen times and one of which holds a control
   character; the non-throwing server is called as in SpecVariant. *)

MaxBothId == 1

VariantOps ==
    {"variant.SearchServer", "variant.SetStopWords", "variant.AddDocument",
     "variant.FindTopDocuments", "variant.MatchDocument"}

IsVariant == call.op \in VariantOps

\* "a i", "b", "h h h h h h h h h h h h h h h h h h" and "b \x12"
BothBodies ==
    { [text |-> <<97, 32, 105>>, status |-> "ACTUAL", ratings |-> <<8, -3>>],
      [text |-> <<98>>,          status |-> "BANNED", ratings |-> <<1>>],
      [text |-> <<104, 32, 104, 32, 104, 32, 104, 32, 104, 32, 104, 32,
                  104, 32, 104, 32, 104, 32, 104, 32, 104, 32, 104, 32,
                  104, 32, 104, 32, 104, 32, 104, 32, 104, 32, 104>>,
       status |-> "ACTUAL", ratings |-> <<>>],
      [text |-> <<98, 32, 18>>,  status |-> "ACTUAL", ratings |-> <<1>>] }

\* "a -b", "i" and "h"
BothQueries == { <<97, 32, 45, 98>>, <<105>>, <<104>> }

InitBoth == Construct \/ ConstructVariant

NextValidating ==
    /\ UNCHANGED writer
    /\ \/ \E documentId \in 0..MaxBothId, body \in BothBodies :
             AddDocument(documentId, body.text, body.status, body.ratings)
       \/ SetStopWords(<<105>>)
       \/ \E rawQuery \in BothQueries : FindTopDocumentsDefault(rawQuery)
       \/ \E rawQuery \in BothQueries, documentId \in 0..MaxBothId :
             MatchDocument(rawQuery, documentId)

NextBoth ==
    \/ ~IsVariant /\ NextValidating
    \/ IsVariant /\ NextVariant

SpecBoth == InitBoth /\ [][NextBoth]_vars

(* SpecInterleaved: one thread adds up to MaxInterleavedDocs of
   InterleavedBodies, numbered 0, 1, ... , statement by statement, while
   other threads read between its statements. *)

MaxInterleavedDocs == 2

\* "a b" and "a a"
InterleavedBodies ==
    { [text |-> <<97, 32, 98>>, status |-> "ACTUAL", ratings |-> <<1>>],
      [text |-> <<97, 32, 97>>, status |-> "ACTUAL", ratings |-> <<2>>] }

\* "a" and "b -a"
InterleavedQueries == { <<97>>, <<98, 32, 45, 97>> }

NextInterleaved ==
    \/ \E body \in InterleavedBodies :
          /\ GetDocumentCount < MaxInterleavedDocs
          /\ WriterBegin(GetDocumentCount, body.text, body.status, body.ratings)
    \/ WriterPush
    \/ WriterFold
    \/ /\ UNCHANGED writer
       /\ \/ \E index \in 0..MaxInterleavedDocs : GetDocumentId(index)
          \/ CallGetDocumentCount
          \/ \E rawQuery \in InterleavedQueries : FindTopDocumentsDefault(rawQuery)
          \/ \E rawQuery \in InterleavedQueries,
                documentId \in 0..(MaxInterleavedDocs - 1) :
                MatchDocument(rawQuery, documentId)

SpecInterleaved == Init /\ [][NextInterleaved]_vars

---------------------------------------------------------------------------
(* Properties *)

FindOps ==
    {"FindTopDocuments()", "FindTopDocuments(status)", "FindTopDocuments(predicate)"}

\* the last call was a FindTopDocuments that returned
Found == call.op \in FindOps /\ ret.threw = "none"

PlusTerms == parseQuery(call.text).plus_words
MinusTerms == parseQuery(call.text).minus_words

\* the terms stored with a document
StoredTerms(id) == Range(documents_[id].words)

Indexed(word, id) ==
    /\ word \in DOMAIN word_to_document_freqs_
    /\ id \in DOMAIN word_to_document_freqs_[word]

Passes(id) ==
    Apply(call.predicate, id, documents_[id].status, documents_[id].rating)

\* the documents that qualify for the last query
Qualifying ==
    {id \in DOMAIN documents_ :
        /\ StoredTerms(id) \cap PlusTerms # {}
        /\ StoredTerms(id) \cap MinusTerms = {}
        /\ Passes(id)}

ReturnedIds == {ret.docs[k].id : k \in 1..Len(ret.docs)}

Min(a, b) == IF a < b THEN a ELSE b

\* C1: AddDocument with a negative id, or with an id that is already
\* stored, throws invalid_argument (and stores nothing).
C1_BadIdRejected ==
    [][(/\ call'.op = "AddDocument"
        /\ (call'.documentId < 0 \/ call'.documentId \in DOMAIN documents_))
       => (ret'.threw = "invalid_argument" /\ UNCHANGED server)]_vars

\* a well-formed text was refused because its id is already stored
C1_Witness ==
    /\ call.op = "AddDocument"
    /\ ret.threw = "invalid_argument"
    /\ call.documentId \in DOMAIN documents_
    /\ splitIntoWordsNoStop(call.text).ok

\* C2: an AddDocument that throws leaves the document map, the id list,
\* the term index and the stop words as they were.
C2_FailedAddChangesNothing ==
    [][(call'.op = "AddDocument" /\ ret'.threw # "none") => UNCHANGED server]_vars

\* a fresh id was refused for an invalid token that follows a valid one,
\* on a server that holds documents
C2_Witness ==
    /\ call.op = "AddDocument"
    /\ ret.threw = "invalid_argument"
    /\ call.documentId >= 0
    /\ call.documentId \notin DOMAIN documents_
    /\ Len(split(call.text)) > 1
    /\ isValidWord(split(call.text)[1])
    /\ ~splitIntoWordsNoStop(call.text).ok
    /\ DOMAIN documents_ # {}

\* C3: AddDocument throws invalid_argument and stores nothing when the
\* text has no tokens or has a token that fails isValidWord.
C3_EmptyOrInvalidTextRejected ==
    [][(/\ call'.op = "AddDocument"
        /\ \/ split(call'.text) = <<>>
           \/ \E k \in 1..Len(split(call'.text)) : ~isValidWord(split(call'.text)[k]))
       => (ret'.threw = "invalid_argument" /\ UNCHANGED server)]_vars

\* C4: when at most MAX_RESULT_DOCUMENT_COUNT documents qualify, every
\* qualifying document is returned; a returned document whose matching plus
\* terms occur in every stored document has relevance 0.
C4_QualifyingReturned ==
    Found =>
        /\ Cardinality(Qualifying) <= MAX_RESULT_DOCUMENT_COUNT
              => Qualifying \subseteq ReturnedIds
        /\ \A k \in 1..Len(ret.docs) :
              (\A word \in PlusTerms \cap StoredTerms(ret.docs[k].id) :
                  \A id \in DOMAIN documents_ : word \in StoredTerms(id))
              => ret.docs[k].relevance = 0

\* the only stored document is returned, with relevance 0
C4_Witness ==
    /\ Found
    /\ GetDocumentCount = 1
    /\ Len(ret.docs) = 1
    /\ ret.docs[1].relevance = 0

\* C5: no returned document is indexed under a minus term of the query.
C5_MinusTermExcludes ==
    Found =>
        \A k \in 1..Len(ret.docs) :
            \A word \in MinusTerms : ~Indexed(word, ret.docs[k].id)

\* a word is both a plus and a minus term and indexes a document that
\* passes the predicate
C5_Witness ==
    /\ Found
    /\ \E word \in PlusTerms \cap MinusTerms :
          \E id \in DOMAIN documents_ : Indexed(word, id) /\ Passes(id)

\* C6: every returned document satisfies the predicate of the call: the
\* predicate passed, the status passed, or status ACTUAL by default.
C6_PredicateHolds ==
    Found =>
        \A k \in 1..Len(ret.docs) :
            LET id   == ret.docs[k].id
                data == documents_[id]
            IN  /\ call.op = "FindTopDocuments(predicate)"
                      => Apply(call.predicate, id, data.status, data.rating)
                /\ call.op = "FindTopDocuments(status)" => data.status = call.status
                /\ call.op = "FindTopDocuments()" => data.status = "ACTUAL"

\* a document is returned while another one, which matches a plus term
\* and no minus term, is held back by the predicate
C6_Witness ==
    /\ Found
    /\ Len(ret.docs) >= 1
    /\ \E id \in DOMAIN documents_ :
          /\ StoredTerms(id) \cap PlusTerms # {}
          /\ StoredTerms(id) \cap MinusTerms = {}
          /\ ~Passes(id)
          /\ id \notin ReturnedIds

\* C7: the result holds min(MAX_RESULT_DOCUMENT_COUNT, number of qualifying
\* documents) entries, the first ones of the sorted list of all qualifying
\* documents.
C7_Capped ==
    Found =>
        /\ Len(ret.docs) = Min(MAX_RESULT_DOCUMENT_COUNT, Cardinality(Qualifying))
        /\ Len(ret.docs) <= MAX_RESULT_DOCUMENT_COUNT
        /\ Len(ret.sorted) = Cardinality(Qualifying)
        /\ {ret.sorted[k].id : k \in 1..Len(ret.sorted)} = Qualifying
        /\ ret.docs = SubSeq(ret.sorted, 1, Len(ret.docs))

\* more documents qualified than are returned
C7_Witness ==
    /\ Found
    /\ Len(ret.sorted) > MAX_RESULT_DOCUMENT_COUNT
    /\ Len(ret.docs) = MAX_RESULT_DOCUMENT_COUNT

\* C8: of two returned documents the earlier has the larger relevance, or
\* the relevances differ by less than EPSILON and the earlier has a rating
\* at least as large.
C8_PairwiseOrder ==
    Found =>
        \A i, j \in 1..Len(ret.docs) :
            i < j =>
                \/ ret.docs[i].relevance > ret.docs[j].relevance
                \/ /\ Abs(ret.docs[i].relevance - ret.docs[j].relevance) < EPSILON
                   /\ ret.docs[i].rating >= ret.docs[j].rating

\* C9: the result is sorted by non-increasing relevance.
C9_NonIncreasingRelevance ==
    Found =>
        \A i \in 2..Len(ret.docs) :
            ret.docs[i - 1].relevance >= ret.docs[i].relevance

\* occurrences / count, rounded to the nearest unit
TermFrequency(word, id) ==
    LET words == documents_[id].words
        occurrences == Cardinality({k \in 1..Len(words) : words[k] = word})
    IN  (occurrences * Scale + (Len(words) \div 2)) \div Len(words)

DocumentFrequency(word) ==
    Cardinality({id \in DOMAIN documents_ : word \in StoredTerms(id)})

RECURSIVE TfIdf(_, _)
TfIdf(words, id) ==
    IF words = {} THEN 0
    ELSE LET word == CHOOSE w \in words : TRUE
         IN  MulFix(TermFrequency(word, id),
                    Log(Cardinality(DOMAIN documents_), DocumentFrequency(word)))
             + TfIdf(words \ {word}, id)

\* C10: the relevance of a returned document is the sum over the plus terms
\* it contains of TF * ln(N / df), N and df counted over all stored
\* documents (to within EPSILON, the rounding of the arithmetic).
C10_RelevanceIsTfIdf ==
    Found =>
        \A k \in 1..Len(ret.docs) :
            Abs(ret.docs[k].relevance
                - TfIdf(PlusTerms \cap StoredTerms(ret.docs[k].id), ret.docs[k].id))
            < EPSILON

\* a returned document has a positive relevance for a plus term that a
\* document the predicate holds back contains as well
C10_Witness ==
    /\ Found
    /\ \E k \in 1..Len(ret.docs) :
          /\ ret.docs[k].relevance > 0
          /\ \E id \in DOMAIN documents_ :
                /\ ~Passes(id)
                /\ PlusTerms \cap StoredTerms(ret.docs[k].id) \cap StoredTerms(id) # {}

RECURSIVE SumOf(_)
SumOf(ratings) == IF ratings = <<>> THEN 0 ELSE Head(ratings) + SumOf(Tail(ratings))

\* q is sum / count truncated toward zero: the remainder has the sign of
\* the sum and is smaller than count
IsTruncatedMean(q, ratings) ==
    IF ratings = <<>> THEN q = 0
    ELSE LET remainder == SumOf(ratings) - q * Len(ratings)
         IN  /\ Abs(remainder) < Len(ratings)
             /\ (SumOf(ratings) >= 0 => remainder >= 0)
             /\ (SumOf(ratings) <= 0 => remainder <= 0)

\* C11: the rating stored by a successful AddDocument is the mean of the
\* ratings passed, truncated toward zero, and 0 for no ratings
\* ([8,-3] -> 2, [7,2,7] -> 5); it never changes afterwards, and every
\* Document returned by FindTopDocuments carries the stored rating.
C11_RatingIsTruncatedMean ==
    /\ computeAverageRating(<<8, -3>>) = 2
    /\ computeAverageRating(<<7, 2, 7>>) = 5
    /\ [][/\ (call'.op = "AddDocument" /\ ret'.threw = "none")
              => IsTruncatedMean(documents_'[call'.documentId].rating,
                                 call'.ratings)
          /\ \A id \in DOMAIN documents_ :
                documents_'[id].rating = documents_[id].rating
          /\ (call'.op \in FindOps /\ ret'.threw = "none")
              => \A k \in 1..Len(ret'.docs) :
                    ret'.docs[k].rating = documents_'[ret'.docs[k].id].rating]_vars

\* a search returned the document rated [-8, 3] with rating -2 (rounding
\* down gives -3) while the document "b", rated [], is stored with 0
C11_Witness ==
    /\ Found
    /\ \E k \in 1..Len(ret.docs) :
          /\ ret.docs[k].rating = -2
          /\ documents_[ret.docs[k].id].words = << <<105>> >>
    /\ \E id \in DOMAIN documents_ :
          documents_[id].words = << <<98>> >> /\ documents_[id].rating = 0

Matched == call.op = "MatchDocument" /\ ret.threw = "none"

Ascending(words) ==
    \A k \in 1..(Len(words) - 1) : StrLess(words[k], words[k + 1])

\* C12: when no minus term of the query is a term of the document,
\* MatchDocument returns the non-stop plus terms of the query that are
\* terms of the document, each once, in ascending lexicographic order,
\* and the status stored for the document.
C12_MatchReturnsPlusTerms ==
    (Matched /\ MinusTerms \cap StoredTerms(call.documentId) = {})
    => /\ Range(ret.matched_words) = PlusTerms \cap StoredTerms(call.documentId)
       /\ Ascending(ret.matched_words)
       /\ ret.status = documents_[call.documentId].status

\* "i a" matched both terms of a document, returned as "a", "i"
C12_Witness ==
    /\ Matched
    /\ MinusTerms = {}
    /\ Len(ret.matched_words) = 2
    /\ split(call.text)[1] = ret.matched_words[2]

\* C13: MatchDocument returns no terms, and the stored status, when a
\* minus term of the query is a term of the document, whatever plus
\* terms match.
C13_MinusTermEmptiesMatch ==
    (Matched /\ MinusTerms \cap StoredTerms(call.documentId) # {})
    => /\ ret.matched_words = <<>>
       /\ ret.status = documents_[call.documentId].status

\* a document holds a plus term and a minus term of the query
C13_Witness ==
    /\ Matched
    /\ MinusTerms \cap StoredTerms(call.documentId) # {}
    /\ (PlusTerms \ MinusTerms) \cap StoredTerms(call.documentId) # {}
    /\ ret.matched_words = <<>>

\* C14: MatchDocument with a query that parses and an id that is not
\* stored throws invalid_argument.
C14_UnknownIdInvalidArgument ==
    (/\ call.op = "MatchDocument"
     /\ parseQuery(call.text).ok
     /\ call.documentId \notin DOMAIN documents_)
    => ret.threw = "invalid_argument"

\* a token of a query that the query grammar refuses: "-" alone, a "--"
\* prefix, a control character, or a first character (after one "-") that
\* is an ASCII character other than a letter
MalformedToken(token) ==
    LET word == IF token[1] = 45 THEN SubSeq(token, 2, Len(token)) ELSE token
    IN  \/ word = <<>>
        \/ word[1] = 45
        \/ \E k \in 1..Len(word) : word[k] \in 0..31 \/ word[k] = 127
        \/ word[1] \in 0..127 /\ ~(word[1] \in 65..90 \/ word[1] \in 97..122)

Malformed(text) == \E k \in 1..Len(split(text)) : MalformedToken(split(text)[k])

\* C15: FindTopDocuments and MatchDocument throw invalid_argument for a
\* query with a malformed token, whatever its other tokens, the target id
\* and the index are.
C15_MalformedQueryRejected ==
    (call.op \in FindOps \cup {"MatchDocument"} /\ Malformed(call.text))
    => ret.threw = "invalid_argument"

\* MatchDocument refused a query for a stored document whose first token
\* is a term of the document and whose last token is malformed
C15_Witness ==
    /\ call.op = "MatchDocument"
    /\ ret.threw = "invalid_argument"
    /\ call.documentId \in DOMAIN documents_
    /\ Len(split(call.text)) = 2
    /\ split(call.text)[1] \in StoredTerms(call.documentId)
    /\ MalformedToken(split(call.text)[2])

\* C16: document_ids_ holds the ids of the successful AddDocument calls in
\* the order of the calls: a successful call appends its id and raises
\* GetDocumentCount by one, every other step (a failed AddDocument
\* included) leaves both unchanged; GetDocumentCount returns the length of
\* that list and GetDocumentId(k) its element k, counted from 0.
C16_InsertionOrder ==
    /\ document_ids_ = <<>>
    /\ GetDocumentCount = 0
    /\ [][/\ IF call'.op = "AddDocument" /\ ret'.threw = "none"
             THEN /\ document_ids_' = Append(document_ids_, call'.documentId)
                  /\ Cardinality(DOMAIN documents_')
                        = Cardinality(DOMAIN documents_) + 1
             ELSE /\ document_ids_' = document_ids_
                  /\ DOMAIN documents_' = DOMAIN documents_
          /\ Cardinality(DOMAIN documents_') = Len(document_ids_')
          /\ call'.op = "GetDocumentCount" => ret'.value = Len(document_ids_')
          /\ (call'.op = "GetDocumentId" /\ call'.documentId \in 0..(Len(document_ids_') - 1))
             => (ret'.threw = "none" /\ ret'.value = document_ids_'[call'.documentId + 1])]_vars

\* GetDocumentId(1) returned id 0, added after id 1
C16_Witness ==
    /\ call.op = "GetDocumentId"
    /\ call.documentId = 1
    /\ ret.threw = "none"
    /\ ret.value = 0
    /\ document_ids_ = <<1, 0>>

\* C17: GetDocumentId(ordinal) throws out_of_range exactly when
\* ordinal < 0 or ordinal >= GetDocumentCount(); otherwise it returns the
\* id of a stored document.
C17_OrdinalRange ==
    call.op = "GetDocumentId"
    => IF call.documentId < 0 \/ call.documentId >= GetDocumentCount
       THEN ret.threw = "out_of_range"
       ELSE ret.threw = "none" /\ ret.value \in DOMAIN documents_

\* the first ordinal beyond a non-empty id list was refused
C17_Witness ==
    /\ call.op = "GetDocumentId"
    /\ call.documentId = GetDocumentCount
    /\ GetDocumentCount > 0
    /\ ret.threw = "out_of_range"

ReadOps == FindOps \cup {"MatchDocument", "GetDocumentCount", "GetDocumentId"}

\* sort has one possible outcome for these elements
OrderDetermined(S) ==
    /\ StrictWeakOrder(S)
    /\ \A a, b \in S : a # b => ~Equivalent(a, b)

\* C18: FindTopDocuments, MatchDocument, GetDocumentCount and
\* GetDocumentId leave documents_, document_ids_, word_to_document_freqs_
\* and m_stopWords unchanged, and a call repeated with the same arguments
\* right after itself gives the same outcome: the same exception or
\* value, the same matched terms and status, the same found documents
\* with the same relevance and rating, in the same order wherever the
\* comparator leaves sort one order only.
C18_QueriesReadOnly ==
    [][/\ call'.op \in ReadOps => UNCHANGED server
       /\ (call' = call /\ call.op \in ReadOps)
          => /\ ret'.threw = ret.threw
             /\ ret'.value = ret.value
             /\ ret'.matched_words = ret.matched_words
             /\ ret'.status = ret.status
             /\ Range(ret'.sorted) = Range(ret.sorted)
             /\ OrderDetermined(Range(ret.sorted)) => ret'.docs = ret.docs]_vars

\* MatchDocument matched a term on a server with two documents and a
\* stop word
C18_Witness ==
    /\ Matched
    /\ ret.matched_words # <<>>
    /\ Len(document_ids_) = 2
    /\ m_stopWords # {}

\* every token of the text, with or without a leading "-", is a stop word
AllStopWords(text) ==
    \A k \in 1..Len(split(text)) :
        LET token == split(text)[k]
        IN  \/ token \in m_stopWords
            \/ token[1] = 45 /\ SubSeq(token, 2, Len(token)) \in m_stopWords

\* C19: FindTopDocuments with a query all of whose tokens are stop words,
\* with or without a leading "-", returns an empty vector and does not
\* throw, also when a stored document holds such a word as a term.
C19_StopWordQueryFindsNothing ==
    (call.op \in FindOps /\ AllStopWords(call.text))
    => (ret.threw = "none" /\ ret.docs = <<>>)

\* "i -i" found nothing although a document added before "i" became a
\* stop word has the term "i"
C19_Witness ==
    /\ Found
    /\ AllStopWords(call.text)
    /\ Len(split(call.text)) = 2
    /\ \E id \in DOMAIN documents_ : Range(split(call.text)) \cap StoredTerms(id) # {}
    /\ ret.docs = <<>>

\* C20: of two documents of a FindTopDocuments result whose relevances
\* differ by less than EPSILON, the one with the larger rating comes
\* first, whichever of the two relevances is the larger.
C20_TieBreakByRating ==
    Found =>
        \A k, l \in 1..Len(ret.docs) :
            (/\ Abs(ret.docs[k].relevance - ret.docs[l].relevance) < EPSILON
             /\ ret.docs[k].rating > ret.docs[l].rating)
            => k < l

\* C21: on the documents handed to sort, the comparator never reports
\* both 'A before B' and 'B before A', never 'A before A', and is
\* transitive.
C21_ComparatorStrict ==
    Found =>
        LET S == Range(ret.sorted)
        IN  /\ \A a, b \in S : ~(Before(a, b) /\ Before(b, a))
            /\ \A a \in S : ~Before(a, a)
            /\ \A a, b, c \in S : (Before(a, b) /\ Before(b, c)) => Before(a, c)

\* the word of a token: the token without one leading "-"
WordOf(token) ==
    IF token # <<>> /\ token[1] = 45 THEN SubSeq(token, 2, Len(token)) ELSE token

\* C24: for a query of well-formed tokens, the minus set is the set of
\* non-stop words of the tokens with a leading "-", the plus set the set
\* of the other tokens that are not stop words, each token counted on its
\* own: a word may be in both sets.
C24_TokensClassifiedIndependently ==
    (call.op \in FindOps \cup {"MatchDocument"} /\ ~Malformed(call.text))
    => LET tokens == Range(split(call.text))
       IN  /\ parseQuery(call.text).ok
           /\ ret.threw # "invalid_argument"
           /\ MinusTerms = {WordOf(token) : token \in
                              {t \in tokens : t[1] = 45 /\ WordOf(t) \notin m_stopWords}}
           /\ PlusTerms = {t \in tokens : t[1] # 45 /\ t \notin m_stopWords}

\* "a -a" was parsed while a stop word is set: "a" is in both sets
C24_Witness ==
    /\ call.op \in FindOps \cup {"MatchDocument"}
    /\ ~Malformed(call.text)
    /\ PlusTerms \cap MinusTerms # {}
    /\ m_stopWords # {}

\* C25: every document FindTopDocuments returns is indexed under a plus
\* term of the query; a query without plus terms returns nothing.
C25_NoPlusTermNoResult ==
    Found =>
        /\ \A k \in 1..Len(ret.docs) :
              \E word \in PlusTerms : Indexed(word, ret.docs[k].id)
        /\ PlusTerms = {} => ret.docs = <<>>

\* a query of one minus term found nothing among documents that pass the
\* predicate, one of them without the minus term
C25_Witness ==
    /\ Found
    /\ PlusTerms = {}
    /\ MinusTerms # {}
    /\ \E id \in DOMAIN documents_ :
          Passes(id) /\ StoredTerms(id) # {} /\ StoredTerms(id) \cap MinusTerms = {}
    /\ ret.docs = <<>>

\* C27: a SetStopWords that throws invalid_argument leaves m_stopWords
\* as it was before the call.
C27_FailedSetStopWordsChangesNothing ==
    [][(call'.op = "SetStopWords" /\ ret'.threw = "invalid_argument")
       => m_stopWords' = m_stopWords]_vars

\* C29: document_ids_ has no duplicates and holds exactly the keys of
\* documents_; every id under a word of word_to_document_freqs_ is a key
\* of documents_; the words that index a document are its stored words;
\* FindTopDocuments never fails in a lookup.
C29_IndexConsistent ==
    /\ Len(document_ids_) = Cardinality(DOMAIN documents_)
    /\ Range(document_ids_) = DOMAIN documents_
    /\ \A k, l \in 1..Len(document_ids_) :
          document_ids_[k] = document_ids_[l] => k = l
    /\ \A word \in DOMAIN word_to_document_freqs_ :
          DOMAIN word_to_document_freqs_[word] \subseteq DOMAIN documents_
    /\ \A id \in DOMAIN documents_ :
          {word \in DOMAIN word_to_document_freqs_ : Indexed(word, id)}
            = StoredTerms(id)
    /\ call.op \in FindOps => ret.threw \in {"none", "invalid_argument"}

\* a search found a document on a server that holds ids 1 and 0, added in
\* this order
C29_Witness ==
    /\ Found
    /\ ret.docs # <<>>
    /\ document_ids_ = <<1, 0>>
    /\ DOMAIN word_to_document_freqs_ # {}

\* the words of a document whose index entry is missing or below the
\* term frequency that a finished AddDocument leaves
Unfolded(id) ==
    {word \in StoredTerms(id) :
        \/ ~Indexed(word, id)
        \/ word_to_document_freqs_[word][id]
             < calculateTermFrequency(EmptyMap, id, documents_[id].words)[word][id]}

\* C28: between the statements of AddDocument the members are in states
\* that no finished call leaves. After the emplace and before the
\* push_back the document is counted but document_ids_ is one entry
\* short, so that GetDocumentId(count - 1) passes its bounds test and
\* reads past the end of document_ids_; after the push_back and before
\* the first iteration of calculateTermFrequency no term of the counted
\* document is indexed, and until the last iteration some term is not
\* fully indexed. When no AddDocument is in progress the id list has the
\* length of the document map and every stored term is fully indexed,
\* and a GetDocumentId that passes the bounds test reads inside the list.
C28_IntermediateStatesExposed ==
    /\ writer.pc = "emplaced"
       => /\ GetDocumentCount = Len(document_ids_) + 1
          /\ writer.documentId \in DOMAIN documents_
          /\ writer.documentId \notin Range(document_ids_)
    /\ writer.pc = "folding"
       => /\ GetDocumentCount = Len(document_ids_)
          /\ writer.i = 1
             => \A word \in StoredTerms(writer.documentId) :
                   ~Indexed(word, writer.documentId)
          /\ writer.i <= Len(documents_[writer.documentId].words)
             => Unfolded(writer.documentId) # {}
    /\ writer.pc = "idle"
       => /\ GetDocumentCount = Len(document_ids_)
          /\ \A id \in DOMAIN documents_ : Unfolded(id) = {}
    /\ (call.op = "GetDocumentId" /\ ret.threw = "none"
          /\ call.documentId >= Len(document_ids_))
       => writer.pc = "emplaced"

\* GetDocumentId(count - 1) ran between the emplace and the push_back of
\* the second document: it passed the bounds test and read past the end
\* of the id list
C28_Witness ==
    /\ writer.pc = "emplaced"
    /\ call.op = "GetDocumentId"
    /\ ret.threw = "none"
    /\ GetDocumentCount = 2
    /\ call.documentId = GetDocumentCount - 1
    /\ Len(document_ids_) = call.documentId

\* the index entries of a document: term -> stored frequency
EntriesOf(freqs, id) ==
    [word \in {w \in DOMAIN freqs : id \in DOMAIN freqs[w]} |-> freqs[word][id]]

\* C26: in the non-throwing server an AddDocument under an id that is
\* already stored answers false and leaves the stored document (terms,
\* rating, status) and its term-frequency entries as they were.
C26_StoredDocumentNeverMutated ==
    [][(call'.op = "variant.AddDocument" /\ call'.documentId \in DOMAIN documents_)
         => /\ ret'.value = 0
            /\ documents_'[call'.documentId] = documents_[call'.documentId]
            /\ EntriesOf(word_to_document_freqs_', call'.documentId)
                 = EntriesOf(word_to_document_freqs_, call'.documentId)]_vars

\* C23: every key of the term index maps to a non-empty document mapping,
\* after any sequence of calls, in the validating server and in the
\* non-throwing server alike.
C23_NoEmptyRow ==
    \A word \in DOMAIN word_to_document_freqs_ :
        DOMAIN word_to_document_freqs_[word] # {}

\* the non-throwing server has just re-added a stored id: the rows of the
\* document were erased and rebuilt over the merged word list, and
\* another document shares the index
C23_Witness ==
    /\ call.op = "variant.AddDocument"
    /\ ret.value = 1
    /\ GetDocumentCount = 2
    /\ Len(documents_[call.documentId].words)
         > Len(SplitIntoWords(call.text))
    /\ \E word \in DOMAIN word_to_document_freqs_ :
          call.documentId \notin DOMAIN word_to_document_freqs_[word]

\* the (term, document) entries of the term index
Entries ==
    {e \in (DOMAIN word_to_document_freqs_) \X (DOMAIN documents_) :
        Indexed(e[1], e[2])}

\* C22 as stated: every entry of the term index holds exactly the quotient
\* occurrences / count over the stored terms of its document, and lies in
\* (0, 1].
C22_TermFrequencyExact ==
    \A word \in DOMAIN word_to_document_freqs_ :
        \A id \in DOMAIN word_to_document_freqs_[word] :
            /\ id \in DOMAIN documents_
            /\ word_to_document_freqs_[word][id] = TermFrequency(word, id)
            /\ word_to_document_freqs_[word][id] > 0
            /\ word_to_document_freqs_[word][id] <= Scale

\* C22: every entry of the term index belongs to a stored document that
\* holds the term, and its value, the sum of one rounded 1/count per
\* occurrence, is within EPSILON of occurrences / count over the stored
\* terms (those left after stop-word removal); hence it lies strictly
\* between 0 and 1 + EPSILON, and it can exceed 1.
C22_TermFrequencyWithinEpsilon ==
    \A word \in DOMAIN word_to_document_freqs_ :
        \A id \in DOMAIN word_to_document_freqs_[word] :
            /\ id \in DOMAIN documents_
            /\ word \in StoredTerms(id)
            /\ Abs(word_to_document_freqs_[word][id] - TermFrequency(word, id)) < EPSILON
            /\ word_to_document_freqs_[word][id] > 0
            /\ word_to_document_freqs_[word][id] < Scale + EPSILON

\* the validating server holds the document of eighteen equal terms,
\* whose entry exceeds 1, and has just stored "a i" without its stop word
C22_Witness ==
    /\ call.op = "AddDocument"
    /\ ret.threw = "none"
    /\ call.text = <<97, 32, 105>>
    /\ documents_[call.documentId].words = <<<<97>>>>
    /\ \E e \in Entries :
          /\ Len(documents_[e[2]].words) > 2
          /\ word_to_document_freqs_[e[1]][e[2]] > Scale

\* every order in which the stored ids can have been added
IdOrders ==
    {order \in [1..GetDocumentCount -> DOMAIN documents_] :
        \A i, j \in 1..GetDocumentCount : order[i] = order[j] => i = j}

\* the term index built by calculateTermFrequency over the stored
\* documents, taken in this order
RECURSIVE Replayed(_, _, _)
Replayed(order, i, freqs) ==
    IF i > Len(order) THEN freqs
    ELSE Replayed(order, i + 1,
                  calculateTermFrequency(freqs, order[i], documents_[order[i]].words))

\* C30: the document map and the term index do not depend on the order of
\* the AddDocument calls. A successful AddDocument stores a record made of
\* its own arguments and the stop words alone and leaves the other
\* records and the stop words as they are; the term index is the one
\* that calculateTermFrequency builds over the stored documents in any
\* order; document_ids_ is one of these orders and is the only member that
\* records it; and what a search collects is computed from the document
\* map, the term index and the stop words.
C30_OrderIndependent ==
    /\ [](/\ \A order \in IdOrders :
               Replayed(order, 1, EmptyMap) = word_to_document_freqs_
          /\ document_ids_ \in IdOrders
          /\ Found => Range(ret.sorted)
                        = Range(findAllDocuments(parseQuery(call.text), call.predicate)))
    /\ [][(call'.op = "AddDocument" /\ ret'.threw = "none")
            => /\ documents_' =
                    Put(documents_, call'.documentId,
                        [rating |-> computeAverageRating(call'.ratings),
                         status |-> call'.status,
                         words  |-> splitIntoWordsNoStop(call'.text).words])
               /\ call'.documentId \notin DOMAIN documents_
               /\ m_stopWords' = m_stopWords]_vars

\* two documents with different terms were added in descending id order:
\* the id list is <<1, 0>>, and the index is the one that adding them in
\* ascending order builds
C30_Witness ==
    /\ call.op = "AddDocument"
    /\ ret.threw = "none"
    /\ Len(document_ids_) = 2
    /\ document_ids_[1] > document_ids_[2]
    /\ StoredTerms(0) # StoredTerms(1)
    /\ StoredTerms(0) \cap StoredTerms(1) # {}
    /\ Replayed(<<0, 1>>, 1, EmptyMap) = word_to_document_freqs_

====
